---------------------------- MODULE Spec2Model ----------------------------
(***************************************************************************)
(* BCParks assets - spatial data quality check (qualityCheck_coords.py).   *)
(*                                                                         *)
(* One run of the script's __main__ block is modelled as a state machine:  *)
(* configuration, PostgresDBManager.connect, read_geojson, the steps of    *)
(* evaluate_assets (catalog query, one spatial query per candidate table,  *)
(* concat / filter / sort / drop / round), the except and finally blocks,  *)
(* and the report branch after them.                                       *)
(*                                                                         *)
(* Distances are held as integers in units of 0.0001 km (0.1 m), so that   *)
(* the 0.05 km threshold is 500 and rounding to 3 decimals is rounding to  *)
(* a multiple of 10.                                                       *)
(***************************************************************************)
EXTENDS Integers, Sequences, FiniteSets, TLC

\* ------------------------------------------------------------------ bounds
\* Longest schema catalog (number of tables listed for schema 'assets').
MaxTables == 3
\* Most rows held by the tables the run reads, together.
MaxRows == 2

\* ------------------------------------------------------- program constants
\* df['distance_km'] > 0.05, in units of 0.0001 km.
Threshold == 500
\* df.round(3): one unit of the third decimal, in units of 0.0001 km.
RoundUnit == 10

\* The fixed denylist of evaluate_assets.
Denylist == {"qgis_projects", "trails", "roads"}

\* The columns evaluate_assets drops from the concatenated table.
DroppedColumns == {"wkb_geometry", "ogc_fid", "campsite_number"}

\* The computed columns the spatial query appends to SELECT *.
QueryColumns == <<"longitude", "latitude", "distance_km">>

\* ------------------------------------------------------------ input space
\* Table names the catalog of schema 'assets' may list.
TableNames == {"campsites", "facilities"} \cup Denylist

\* Stored column lists of an asset table: SELECT * returns whatever columns
\* the table has. One list has campsite_number, the other has a column of
\* its own instead.
ColumnLists ==
    { <<"ogc_fid", "gisid", "asset_category", "campsite_number", "wkb_geometry">>,
      <<"ogc_fid", "gisid", "asset_category", "asset_type", "wkb_geometry">> }

\* Distances (0.0001 km) of geometries that do not intersect the boundary:
\* exactly at the threshold, just above it (rounds down to it), far away.
OutsideDistances == {500, 503, 1500}

\* A stored row: does its geometry intersect the boundary (ST_Intersects,
\* planar), and its ST_Distance to the boundary (geodesic). The two are
\* computed separately: an intersecting geometry usually has distance 0,
\* and may have a positive geodesic distance.
StoredRows ==
    { [inter |-> TRUE, dist |-> 0], [inter |-> TRUE, dist |-> 1500] }
        \cup { [inter |-> FALSE, dist |-> d] : d \in OutsideDistances }

SeqsUpTo(S, n) == UNION { [1..k -> S] : k \in 0..n }

TableContents == [cols : ColumnLists, rows : SeqsUpTo(StoredRows, MaxRows)]

Range(s) == { s[i] : i \in DOMAIN s }

IsInjective(s) == \A i, j \in DOMAIN s : s[i] = s[j] => i = j

\* Catalogs: table names are unique within a schema.
Catalogs == { c \in SeqsUpTo(TableNames, MaxTables) : IsInjective(c) }

\* Number of rows stored in the tables of f together.
RECURSIVE SumRows(_, _)
SumRows(f, S) ==
    IF S = {} THEN 0
    ELSE LET t == CHOOSE x \in S : TRUE
         IN  Len(f[t].rows) + SumRows(f, S \ {t})

TotalRows(f) == SumRows(f, DOMAIN f)

VARIABLES
    pc,            \* position in __main__ / evaluate_assets
    pg,            \* "unbound" or "bound": the name pg of __main__
    connection,    \* pg.connection: 0 is None, else the id of a connection
    cursor,        \* pg.cursor: 0 is None
    conn,          \* the local conn of __main__: 0 is None
    openConns,     \* ids of the server connections that are open
    opened,        \* number of connections opened so far
    released,      \* has PostgresDBManager.disconnect been executed
    bc_geom_wkb,   \* "unbound" or "wkb"
    catalog,       \* information_schema.tables for schema 'assets'
    db,            \* table name -> stored content, for the tables read
    tab_names,     \* evaluate_assets: the candidate tables
    idx,           \* evaluate_assets: position of the for loop in tab_names
    results,       \* evaluate_assets: per-table frames, in insertion order
    df,            \* the violation table: [columns, rows], when dfBound
    dfBound,       \* is the name df of __main__ bound
    exiting,       \* exit(1) was called in the except block
    exitCode,      \* -1 while running, else the process exit status
    report,        \* "none", "built", "saved"
    reportInput,   \* the table handed to build_html_report
    trace          \* the operations performed, in order

vars == << pc, pg, connection, cursor, conn, openConns, opened, released,
           bc_geom_wkb, catalog, db, tab_names, idx, results, df, dfBound,
           exiting, exitCode, report, reportInput, trace >>

\* State of the functions that are specified on their own (each under a
\* specification of its own, below); a run of __main__ leaves it alone.
VARIABLES
    served,          \* repeated evaluate_assets: frames served to each call
    returned,        \* repeated evaluate_assets: table returned by each call
    geojson,         \* read_geojson: the boundary file, [crs, features]
    gdf,             \* read_geojson: gdf
    bc_geom,         \* read_geojson: bc_geom
    wkb,             \* read_geojson: the value returned
    rpc,             \* build_html_report: position in the function
    rdf,             \* build_html_report: the rows of its argument df
    cats,            \* build_html_report: cats
    color_map,       \* build_html_report: color_map
    layers,          \* build_html_report: the children added to the map m
    groups,          \* build_html_report: category -> children of its group
    js_coords_lines, \* build_html_report: js_coords_lines
    gis,             \* AGOManager.gis
    items,           \* the content hosted on AGOL
    apc,             \* publish_feature_layer_from_geojson: position in it
    title,           \* publish_feature_layer_from_geojson: title
    existing_items,  \* publish_feature_layer_from_geojson: existing_items
    new_geojson_item, \* publish_feature_layer_from_geojson: new_geojson_item
    calls,           \* AGOManager: method calls, service calls and
                     \* outcomes, in order
    assets_in,       \* process_assets: the argument df
    assets_df,       \* process_assets: df, then gdf
    ppc              \* process_assets: position in the function

rerunVars == << served, returned >>

boundaryVars == << geojson, gdf, bc_geom, wkb >>

reportVars == << rpc, rdf, cats, color_map, layers, groups, js_coords_lines >>

agoVars == << gis, items, apc, title, existing_items, new_geojson_item, calls >>

processVars == << assets_in, assets_df, ppc >>

otherVars == << rerunVars, boundaryVars, reportVars, agoVars, processVars >>

RerunIdle == served = <<>> /\ returned = <<>>

BoundaryIdle == geojson = <<>> /\ gdf = <<>> /\ bc_geom = <<>> /\ wkb = <<>>

ReportIdle ==
    /\ rpc = "idle"
    /\ rdf = <<>>
    /\ cats = <<>>
    /\ color_map = <<>>
    /\ layers = <<>>
    /\ groups = <<>>
    /\ js_coords_lines = <<>>

ProcessIdle == assets_in = <<>> /\ assets_df = <<>> /\ ppc = "idle"

\* self.gis: None, or the object GIS(...) returned, whose users.me is the
\* current user or None.
NoGis == [isNone |-> TRUE, me |-> "None"]
GIS(user) == [isNone |-> FALSE, me |-> user]

AgoIdle ==
    /\ gis = NoGis /\ items = {} /\ apc = "idle" /\ title = <<>>
    /\ existing_items = <<>> /\ new_geojson_item = "None" /\ calls = <<>>

NoFrame == [columns |-> <<>>, rows |-> <<>>]

Ev(op, arg) == [op |-> op, arg |-> arg]

Init ==
    /\ pc = "config"
    /\ pg = "unbound"
    /\ connection = 0
    /\ cursor = 0
    /\ conn = 0
    /\ openConns = {}
    /\ opened = 0
    /\ released = FALSE
    /\ bc_geom_wkb = "unbound"
    /\ catalog \in Catalogs
    /\ db = [t \in {} |-> NoFrame]
    /\ tab_names = <<>>
    /\ idx = 0
    /\ results = <<>>
    /\ df = NoFrame
    /\ dfBound = FALSE
    /\ exiting = FALSE
    /\ exitCode = -1
    /\ report = "none"
    /\ reportInput = NoFrame
    /\ trace = <<>>
    /\ RerunIdle /\ BoundaryIdle /\ ReportIdle /\ AgoIdle /\ ProcessIdle

\* ------------------------------------------------ evaluate_assets, pure part
\* Mutant of IsCandidate: 'roads' left off the denylist.
IsCandidateRoadsForgotten(x) == x \notin {"qgis_projects", "trails"}

\* The comprehension over the catalog: x not in ['qgis_projects', ...].
IsCandidate(x) == x \notin Denylist

CandidateTables(names) == SelectSeq(names, IsCandidate)

\* WHERE NOT ST_Intersects(geometry, boundary).
NotIntersects(r) == ~ r.inter

\* The indices of the stored rows the WHERE clause keeps, in stored order.
RECURSIVE KeptIndices(_, _)
KeptIndices(rows, i) ==
    IF i > Len(rows) THEN <<>>
    ELSE (IF NotIntersects(rows[i]) THEN <<i>> ELSE <<>>)
             \o KeptIndices(rows, i + 1)

\* pd.read_sql_query of the spatial query on one table. A returned row
\* carries its distance_km and src, the stored row it was computed from
\* (its identity in the frame, not a column).
SpatialQuery(t, content) ==
    LET kept == KeptIndices(content.rows, 1) IN
    [columns |-> content.cols \o QueryColumns,
     rows    |-> [k \in 1..Len(kept) |->
                     [src |-> <<t, kept[k]>>,
                      distance_km |-> content.rows[kept[k]].dist]]]

\* pd.concat(..., ignore_index=True): columns in order of first appearance,
\* rows of every frame in order.
RECURSIVE AppendNew(_, _)
AppendNew(cols, more) ==
    IF more = <<>> THEN cols
    ELSE AppendNew(IF Head(more) \in Range(cols) THEN cols
                   ELSE Append(cols, Head(more)), Tail(more))

\* Mutant of Concat: only the frame of the last table is kept.
ConcatLast(frames) ==
    IF frames = <<>> THEN NoFrame ELSE frames[Len(frames)]

\* Mutant of Concat: frames without rows are left out of the concatenation.
RECURSIVE ConcatSkippingEmpty(_)
ConcatSkippingEmpty(frames) ==
    IF frames = <<>> THEN NoFrame
    ELSE LET rest == ConcatSkippingEmpty(Tail(frames)) IN
         IF Head(frames).rows = <<>> THEN rest
         ELSE [columns |-> AppendNew(Head(frames).columns, rest.columns),
               rows    |-> Head(frames).rows \o rest.rows]

RECURSIVE Concat(_)
Concat(frames) ==
    IF frames = <<>> THEN NoFrame
    ELSE LET rest == Concat(Tail(frames)) IN
         [columns |-> AppendNew(Head(frames).columns, rest.columns),
          rows    |-> Head(frames).rows \o rest.rows]

\* Mutant of KeepRow: rows exactly at the threshold are kept.
KeepRowAtOrAbove(r) == r.distance_km >= Threshold

\* df[df['distance_km'] > 0.05]
KeepRow(r) == r.distance_km > Threshold

\* Mutant of Precedes: ascending order.
PrecedesAscending(a, b) == a.distance_km <= b.distance_km

\* sort_values(by='distance_km', ascending=False): a comes no later than b.
Precedes(a, b) == a.distance_km >= b.distance_km

\* Every arrangement of the rows S that sort_values may produce: the order
\* of rows with equal keys is left to the sorting algorithm.
RECURSIVE SortedArrangements(_)
SortedArrangements(S) ==
    IF S = {} THEN { <<>> }
    ELSE UNION { { <<r>> \o t : t \in SortedArrangements(S \ {r}) } :
                 r \in { x \in S : \A y \in S : Precedes(x, y) } }

\* df.drop(columns=[...]) on the column list.
DropColumns(cols) == SelectSeq(cols, LAMBDA c : c \notin DroppedColumns)

\* round(3) of one value: to the nearest multiple of RoundUnit, ties to even.
Round3(d) ==
    LET q == d \div RoundUnit
        r == d % RoundUnit
    IN  IF 2 * r < RoundUnit THEN q * RoundUnit
        ELSE IF 2 * r > RoundUnit THEN (q + 1) * RoundUnit
        ELSE IF q % 2 = 0 THEN q * RoundUnit ELSE (q + 1) * RoundUnit

RoundRows(rows) ==
    [i \in DOMAIN rows |-> [rows[i] EXCEPT !.distance_km = Round3(@)]]

\* Mutant of TailRaises: drop passes over a missing column.
TailRaisesOnNoFramesOnly(frames) == frames = <<>>

\* Mutant of TailRaises: concat of no frames gives the empty frame.
TailRaisesOnMissingColumnOnly(frames) ==
    /\ frames # <<>>
    /\ ~ (DroppedColumns \subseteq Range(Concat(frames).columns))

\* pd.concat raises on an empty list; drop raises on a missing column.
TailRaises(frames) ==
    \/ frames = <<>>
    \/ ~ (DroppedColumns \subseteq Range(Concat(frames).columns))

\* The tables evaluate_assets may return for the per-table frames.
EvaluateTail(frames) ==
    LET all  == Concat(frames)
        kept == SelectSeq(all.rows, KeepRow)
    IN  { [columns |-> DropColumns(all.columns), rows |-> RoundRows(s)] :
          s \in SortedArrangements(Range(kept)) }

\* ------------------------------------------------------ PostgresDBManager
\* connect(): psycopg2.connect succeeds; the new connection is stored and
\* returned.
ConnectSucceeds ==
    /\ opened' = opened + 1
    /\ connection' = opened + 1
    /\ openConns' = openConns \cup {opened + 1}
    /\ conn' = opened + 1

\* connect(): OperationalError is logged, connection is None and the call
\* returns None.
ConnectRaisesOperationalError ==
    /\ connection' = 0
    /\ conn' = 0
    /\ UNCHANGED << opened, openConns >>

\* disconnect() with a connection whose close() succeeds.
DisconnectCloses ==
    /\ connection # 0
    /\ openConns' = openConns \ {connection}
    /\ connection' = 0
    /\ cursor' = 0

\* disconnect() with a connection whose close() raises DatabaseError: the
\* error is logged, the references are dropped, and the server connection
\* is left open or closed.
DisconnectCloseRaises ==
    /\ connection # 0
    /\ openConns' \in { openConns, openConns \ {connection} }
    /\ connection' = 0
    /\ cursor' = 0

\* disconnect() with no connection: a warning only.
DisconnectNoConnection ==
    /\ connection = 0
    /\ UNCHANGED << connection, cursor, openConns >>

\* ----------------------------------------------------------------- __main__
Log(e) == trace' = Append(trace, e)

\* The five os.getenv(...).rstrip() calls succeed and pg is constructed.
ConfigOk ==
    /\ pc = "config"
    /\ pg' = "bound"
    /\ pc' = "connect"
    /\ Log(Ev("config_ok", ""))
    /\ UNCHANGED << connection, cursor, conn, openConns, opened, released,
                    bc_geom_wkb, catalog, db, tab_names, idx, results, df,
                    dfBound, exiting, exitCode, report, reportInput >>
    /\ UNCHANGED otherVars

\* A variable is not set: os.getenv returns None and .rstrip() raises,
\* before pg is assigned.
ConfigMissing ==
    /\ pc = "config"
    /\ pc' = "except"
    /\ Log(Ev("config_missing", ""))
    /\ UNCHANGED << pg, connection, cursor, conn, openConns, opened, released,
                    bc_geom_wkb, catalog, db, tab_names, idx, results, df,
                    dfBound, exiting, exitCode, report, reportInput >>
    /\ UNCHANGED otherVars

\* conn = pg.connect(), connection established.
ConnectOk ==
    /\ pc = "connect"
    /\ ConnectSucceeds
    /\ pc' = "read_geojson"
    /\ Log(Ev("connect_ok", ""))
    /\ UNCHANGED << pg, cursor, released, bc_geom_wkb, catalog, db, tab_names,
                    idx, results, df, dfBound, exiting, exitCode, report,
                    reportInput >>
    /\ UNCHANGED otherVars

\* conn = pg.connect(), OperationalError caught inside connect(): the
\* script goes on with conn = None.
ConnectFail ==
    /\ pc = "connect"
    /\ ConnectRaisesOperationalError
    /\ pc' = "read_geojson"
    /\ Log(Ev("connect_fail", ""))
    /\ UNCHANGED << pg, cursor, released, bc_geom_wkb, catalog, db, tab_names,
                    idx, results, df, dfBound, exiting, exitCode, report,
                    reportInput >>
    /\ UNCHANGED otherVars

\* bc_geom_wkb = read_geojson("data/bc.geojson")
ReadGeojsonOk ==
    /\ pc = "read_geojson"
    /\ bc_geom_wkb' = "wkb"
    /\ pc' = "eval_catalog"
    /\ Log(Ev("read_geojson_ok", ""))
    /\ UNCHANGED << pg, connection, cursor, conn, openConns, opened, released,
                    catalog, db, tab_names, idx, results, df, dfBound,
                    exiting, exitCode, report, reportInput >>
    /\ UNCHANGED otherVars

\* Mutant of ReadGeojsonFail: the error is swallowed and the run goes on
\* to the evaluation.
ReadGeojsonFailIgnored ==
    /\ pc = "read_geojson"
    /\ pc' = "eval_catalog"
    /\ Log(Ev("read_geojson_fail", ""))
    /\ UNCHANGED << pg, connection, cursor, conn, openConns, opened, released,
                    bc_geom_wkb, catalog, db, tab_names, idx, results, df,
                    dfBound, exiting, exitCode, report, reportInput >>
    /\ UNCHANGED otherVars

\* read_geojson raises: the file is missing or cannot be parsed.
ReadGeojsonFail ==
    /\ pc = "read_geojson"
    /\ pc' = "except"
    /\ Log(Ev("read_geojson_fail", ""))
    /\ UNCHANGED << pg, connection, cursor, conn, openConns, opened, released,
                    bc_geom_wkb, catalog, db, tab_names, idx, results, df,
                    dfBound, exiting, exitCode, report, reportInput >>
    /\ UNCHANGED otherVars

\* evaluate_assets: pd.read_sql(sqlTabs, conn) returns the catalog and the
\* candidate tables are selected.
CatalogQueryOk ==
    /\ pc = "eval_catalog"
    /\ conn # 0
    /\ tab_names' = CandidateTables(catalog)
    /\ idx' = 1
    /\ results' = <<>>
    /\ pc' = "eval_loop"
    /\ Log(Ev("catalog_query", ""))
    /\ UNCHANGED << pg, connection, cursor, conn, openConns, opened, released,
                    bc_geom_wkb, catalog, db, df, dfBound, exiting, exitCode,
                    report, reportInput >>
    /\ UNCHANGED otherVars

\* evaluate_assets: the catalog query raises (always, when conn is None).
CatalogQueryFail ==
    /\ pc = "eval_catalog"
    /\ pc' = "except"
    /\ Log(Ev("catalog_query_fail", ""))
    /\ UNCHANGED << pg, connection, cursor, conn, openConns, opened, released,
                    bc_geom_wkb, catalog, db, tab_names, idx, results, df,
                    dfBound, exiting, exitCode, report, reportInput >>
    /\ UNCHANGED otherVars

\* evaluate_assets: one pass of the for loop, the query returns a frame.
\* Each table is read once: its stored content is drawn when it is read and
\* kept in db.
TableQueryOk ==
    /\ pc = "eval_loop"
    /\ idx <= Len(tab_names)
    /\ LET table == tab_names[idx] IN
         \E content \in TableContents :
            /\ TotalRows(db) + Len(content.rows) <= MaxRows
            /\ db' = (table :> content) @@ db
            /\ results' = Append(results, [table  |-> table,
                                           df_tab |-> SpatialQuery(table, content)])
            /\ Log(Ev("query", table))
    /\ idx' = idx + 1
    /\ UNCHANGED << pc, pg, connection, cursor, conn, openConns, opened,
                    released, bc_geom_wkb, catalog, tab_names, df, dfBound,
                    exiting, exitCode, report, reportInput >>
    /\ UNCHANGED otherVars

\* Mutant of TableQueryFail: the failing table is skipped and the loop
\* goes on with the next one.
TableQueryFailSkipped ==
    /\ pc = "eval_loop"
    /\ idx <= Len(tab_names)
    /\ idx' = idx + 1
    /\ Log(Ev("query_fail", tab_names[idx]))
    /\ UNCHANGED << pc, pg, connection, cursor, conn, openConns, opened,
                    released, bc_geom_wkb, catalog, db, tab_names, results, df,
                    dfBound, exiting, exitCode, report, reportInput >>
    /\ UNCHANGED otherVars

\* evaluate_assets: the query of the current table raises; the exception
\* leaves the loop and evaluate_assets.
TableQueryFail ==
    /\ pc = "eval_loop"
    /\ idx <= Len(tab_names)
    /\ pc' = "except"
    /\ Log(Ev("query_fail", tab_names[idx]))
    /\ UNCHANGED << pg, connection, cursor, conn, openConns, opened, released,
                    bc_geom_wkb, catalog, db, tab_names, idx, results, df,
                    dfBound, exiting, exitCode, report, reportInput >>
    /\ UNCHANGED otherVars

Frames(res) == [i \in DOMAIN res |-> res[i].df_tab]

\* evaluate_assets: concat, filter, sort, drop, round, return; df is bound
\* and control reaches the finally block.
EvaluateReturn ==
    /\ pc = "eval_loop"
    /\ idx > Len(tab_names)
    /\ ~ TailRaises(Frames(results))
    /\ df' \in EvaluateTail(Frames(results))
    /\ dfBound' = TRUE
    /\ pc' = "finally"
    /\ Log(Ev("evaluate_return", ""))
    /\ UNCHANGED << pg, connection, cursor, conn, openConns, opened, released,
                    bc_geom_wkb, catalog, db, tab_names, idx, results,
                    exiting, exitCode, report, reportInput >>
    /\ UNCHANGED otherVars

\* evaluate_assets: pd.concat or df.drop raises.
EvaluateTailFail ==
    /\ pc = "eval_loop"
    /\ idx > Len(tab_names)
    /\ TailRaises(Frames(results))
    /\ pc' = "except"
    /\ Log(Ev("evaluate_fail", ""))
    /\ UNCHANGED << pg, connection, cursor, conn, openConns, opened, released,
                    bc_geom_wkb, catalog, db, tab_names, idx, results, df,
                    dfBound, exiting, exitCode, report, reportInput >>
    /\ UNCHANGED otherVars

\* except Exception: the error is logged and exit(1) is called; the finally
\* block runs before the process ends.
ExceptHandler ==
    /\ pc = "except"
    /\ exiting' = TRUE
    /\ pc' = "finally"
    /\ Log(Ev("except", ""))
    /\ UNCHANGED << pg, connection, cursor, conn, openConns, opened, released,
                    bc_geom_wkb, catalog, db, tab_names, idx, results, df,
                    dfBound, exitCode, report, reportInput >>
    /\ UNCHANGED otherVars

\* Where control goes after the finally block.
AfterFinally ==
    IF exiting THEN pc' = "done" /\ exitCode' = 1
    ELSE pc' = "branch" /\ UNCHANGED exitCode

\* finally: pg.disconnect() with pg never assigned: NameError, which ends
\* the process with status 1.
FinallyNameError ==
    /\ pc = "finally"
    /\ pg = "unbound"
    /\ pc' = "done"
    /\ exitCode' = 1
    /\ Log(Ev("name_error", ""))
    /\ UNCHANGED << pg, connection, cursor, conn, openConns, opened, released,
                    bc_geom_wkb, catalog, db, tab_names, idx, results, df,
                    dfBound, exiting, report, reportInput >>
    /\ UNCHANGED otherVars

\* finally: pg.disconnect(), in each of its three courses.
FinallyDisconnect ==
    /\ pc = "finally"
    /\ pg = "bound"
    /\ \/ DisconnectCloses
       \/ DisconnectCloseRaises
       \/ DisconnectNoConnection
    /\ released' = TRUE
    /\ AfterFinally
    /\ Log(Ev("disconnect", ""))
    /\ UNCHANGED << pg, conn, opened, bc_geom_wkb, catalog, db, tab_names, idx,
                    results, df, dfBound, exiting, report, reportInput >>
    /\ UNCHANGED otherVars

\* Mutant of BuildReport: the builder is given the first per-table frame.
BuildReportFirstFrame ==
    /\ pc = "branch"
    /\ Len(df.rows) > 0
    /\ report' = "built"
    /\ reportInput' = Frames(results)[1]
    /\ pc' = "save"
    /\ Log(Ev("build_html_report", ""))
    /\ UNCHANGED << pg, connection, cursor, conn, openConns, opened, released,
                    bc_geom_wkb, catalog, db, tab_names, idx, results, df,
                    dfBound, exiting, exitCode >>
    /\ UNCHANGED otherVars

\* if df.shape[0] > 0: html_report = build_html_report(bc_geom_wkb, df)
BuildReport ==
    /\ pc = "branch"
    /\ Len(df.rows) > 0
    /\ report' = "built"
    /\ reportInput' = df
    /\ pc' = "save"
    /\ Log(Ev("build_html_report", ""))
    /\ UNCHANGED << pg, connection, cursor, conn, openConns, opened, released,
                    bc_geom_wkb, catalog, db, tab_names, idx, results, df,
                    dfBound, exiting, exitCode >>
    /\ UNCHANGED otherVars

\* html_report.save("docs/out_of_bc.html")
SaveReport ==
    /\ pc = "save"
    /\ report' = "saved"
    /\ pc' = "finish"
    /\ Log(Ev("save", ""))
    /\ UNCHANGED << pg, connection, cursor, conn, openConns, opened, released,
                    bc_geom_wkb, catalog, db, tab_names, idx, results, df,
                    dfBound, exiting, exitCode, reportInput >>
    /\ UNCHANGED otherVars

\* else: "No assets found outside BC boundary." is logged and exit(1) ends
\* the process.
NoViolationsExit ==
    /\ pc = "branch"
    /\ ~ (Len(df.rows) > 0)
    /\ exitCode' = 1
    /\ pc' = "done"
    /\ Log(Ev("no_assets_found", ""))
    /\ UNCHANGED << pg, connection, cursor, conn, openConns, opened, released,
                    bc_geom_wkb, catalog, db, tab_names, idx, results, df,
                    dfBound, exiting, report, reportInput >>
    /\ UNCHANGED otherVars

\* The script runs to its last line and the process ends with status 0.
Complete ==
    /\ pc = "finish"
    /\ exitCode' = 0
    /\ pc' = "done"
    /\ Log(Ev("completed", ""))
    /\ UNCHANGED << pg, connection, cursor, conn, openConns, opened, released,
                    bc_geom_wkb, catalog, db, tab_names, idx, results, df,
                    dfBound, exiting, report, reportInput >>
    /\ UNCHANGED otherVars

Next ==
    \/ ConfigOk
    \/ ConfigMissing
    \/ ConnectOk
    \/ ConnectFail
    \/ ReadGeojsonOk
    \/ ReadGeojsonFail
    \/ CatalogQueryOk
    \/ CatalogQueryFail
    \/ TableQueryOk
    \/ TableQueryFail
    \/ EvaluateReturn
    \/ EvaluateTailFail
    \/ ExceptHandler
    \/ FinallyNameError
    \/ FinallyDisconnect
    \/ BuildReport
    \/ SaveReport
    \/ NoViolationsExit
    \/ Complete

Spec == Init /\ [][Next]_vars

\* ------------------------------------------- evaluate_assets, called twice
\* The variables of __main__ other than the database, at rest.
MainAtRest ==
    /\ pg = "unbound"
    /\ connection = 0
    /\ cursor = 0
    /\ conn = 0
    /\ openConns = {}
    /\ opened = 0
    /\ released = FALSE
    /\ bc_geom_wkb = "unbound"
    /\ tab_names = <<>>
    /\ idx = 0
    /\ results = <<>>
    /\ df = NoFrame
    /\ dfBound = FALSE
    /\ exiting = FALSE
    /\ exitCode = -1
    /\ report = "none"
    /\ reportInput = NoFrame
    /\ trace = <<>>

\* Contents of the tables of names, holding at most MaxRows rows together.
StoredContents(names) ==
    { f \in [names -> TableContents] : TotalRows(f) <= MaxRows }

\* The spatial query has no ORDER BY: the database may return the rows of
\* a frame in any order.
RowOrders(frame) ==
    LET n == Len(frame.rows) IN
    { [frame EXCEPT !.rows = [k \in 1..n |-> frame.rows[p[k]]]] :
      p \in { q \in [1..n -> 1..n] : IsInjective(q) } }

\* The per-table frames one call of evaluate_assets may be served.
RECURSIVE ServedFrames(_)
ServedFrames(tabs) ==
    IF tabs = <<>> THEN { <<>> }
    ELSE { <<fr>> \o rest :
           fr \in RowOrders(SpatialQuery(Head(tabs), db[Head(tabs)])),
           rest \in ServedFrames(Tail(tabs)) }

\* The database is unchanged between the calls; catalogs of candidate
\* tables only.
InitRerun ==
    /\ pc = "rerun"
    /\ MainAtRest
    /\ catalog \in { c \in Catalogs : Range(c) \cap Denylist = {} }
    /\ db \in StoredContents(Range(catalog))
    /\ RerunIdle /\ BoundaryIdle /\ ReportIdle /\ AgoIdle /\ ProcessIdle

\* One call of evaluate_assets(bc_geom_wkb, conn) that returns a table.
\* sort_values is a function of its input: frames served as in an earlier
\* call give the table of that call.
EvaluateCall ==
    /\ pc = "rerun"
    /\ Len(returned) < 2
    /\ \E frames \in ServedFrames(CandidateTables(catalog)) :
          /\ ~ TailRaises(frames)
          /\ \E table \in
                (IF \E j \in DOMAIN served : served[j] = frames
                 THEN { returned[j] : j \in { i \in DOMAIN served : served[i] = frames } }
                 ELSE EvaluateTail(frames)) :
                returned' = Append(returned, table)
          /\ served' = Append(served, frames)
    /\ UNCHANGED << vars, boundaryVars, reportVars, agoVars, processVars >>

\* One call of evaluate_assets that raises in pd.concat or df.drop.
EvaluateCallRaises ==
    /\ pc = "rerun"
    /\ Len(returned) < 2
    /\ TailRaises(Frames([i \in DOMAIN CandidateTables(catalog) |->
            [table |-> CandidateTables(catalog)[i],
             df_tab |-> SpatialQuery(CandidateTables(catalog)[i],
                                     db[CandidateTables(catalog)[i]])]]))
    /\ pc' = "raised"
    /\ UNCHANGED << pg, connection, cursor, conn, openConns, opened, released,
                    bc_geom_wkb, catalog, db, tab_names, idx, results, df,
                    dfBound, exiting, exitCode, report, reportInput, trace >>
    /\ UNCHANGED otherVars

NextRerun == EvaluateCall \/ EvaluateCallRaises

SpecRerun == InitRerun /\ [][NextRerun]_<< vars, otherVars >>

\* ------------------------------------------------------------ read_geojson
MaxFeatures == 2
NPoints == 3

\* Coordinate reference systems a boundary file may be in, and the offset
\* of each one's coordinates from those of EPSG:4326.
CrsNames == { "EPSG:4326", "EPSG:3005" }
CrsOffset == [c \in CrsNames |-> IF c = "EPSG:4326" THEN 0 ELSE 100]

\* A feature's geometry is the set of points it covers; a file holds its
\* features in order, with coordinates in the file's reference system.
Geometries(crs) ==
    (SUBSET { CrsOffset[crs] + k : k \in 1..NPoints }) \ { {} }

BoundaryFiles ==
    { [crs |-> c, features |-> fs] :
      c \in CrsNames, fs \in {<<>>} }
    \cup UNION { { [crs |-> c, features |-> fs] :
                   fs \in UNION { [1..n -> Geometries(c)] : n \in 1..MaxFeatures } } :
                 c \in CrsNames }

\* gdf.to_crs(target): every coordinate is re-expressed in the target
\* reference system.
To_crs(frame, target) ==
    [crs |-> target,
     features |-> [i \in DOMAIN frame.features |->
                     { p - CrsOffset[frame.crs] + CrsOffset[target] :
                       p \in frame.features[i] }]]

Unary_unionFirstOnly(features) ==
    IF features = <<>> THEN {} ELSE Head(features)

\* gdf.unary_union: the geometries merged one after the other.
RECURSIVE Unary_union(_)
Unary_union(features) ==
    IF features = <<>> THEN {}
    ELSE Head(features) \cup Unary_union(Tail(features))

\* wkb_dumps(geom): one geometry serialised, its points in ascending order.
RECURSIVE Wkb_dumps(_)
Wkb_dumps(geom) ==
    IF geom = {} THEN <<>>
    ELSE LET least == CHOOSE p \in geom : \A q \in geom : p <= q
         IN  <<least>> \o Wkb_dumps(geom \ {least})

\* The points of a serialised geometry.
Wkb_loads(bytes) == Range(bytes)

InitBoundary ==
    /\ pc = "read_file"
    /\ MainAtRest
    /\ catalog = <<>>
    /\ db = <<>>
    /\ geojson \in BoundaryFiles
    /\ gdf = <<>> /\ bc_geom = <<>> /\ wkb = <<>>
    /\ RerunIdle /\ ReportIdle /\ AgoIdle /\ ProcessIdle

BoundaryStep(to) ==
    /\ pc' = to
    /\ UNCHANGED << pg, connection, cursor, conn, openConns, opened, released,
                    bc_geom_wkb, catalog, db, tab_names, idx, results, df,
                    dfBound, exiting, exitCode, report, reportInput, trace >>
    /\ UNCHANGED << rerunVars, reportVars, agoVars, processVars >>

\* gdf = gpd.read_file(geojson)
ReadFile ==
    /\ pc = "read_file"
    /\ gdf' = geojson
    /\ BoundaryStep("to_crs")
    /\ UNCHANGED << geojson, bc_geom, wkb >>

\* gpd.read_file raises: read_geojson passes the error on.
ReadFileRaises ==
    /\ pc = "read_file"
    /\ BoundaryStep("raised")
    /\ UNCHANGED boundaryVars

\* if gdf.crs != "EPSG:4326": gdf = gdf.to_crs("EPSG:4326")
Reproject ==
    /\ pc = "to_crs"
    /\ gdf' = IF gdf.crs # "EPSG:4326" THEN To_crs(gdf, "EPSG:4326") ELSE gdf
    /\ BoundaryStep("unary_union")
    /\ UNCHANGED << geojson, bc_geom, wkb >>

\* bc_geom = gdf.unary_union
UnaryUnion ==
    /\ pc = "unary_union"
    /\ bc_geom' = Unary_union(gdf.features)
    /\ BoundaryStep("wkb_dumps")
    /\ UNCHANGED << geojson, gdf, wkb >>

\* return wkb_dumps(bc_geom)
WkbDumps ==
    /\ pc = "wkb_dumps"
    /\ wkb' = Wkb_dumps(bc_geom)
    /\ BoundaryStep("returned")
    /\ UNCHANGED << geojson, gdf, bc_geom >>

NextBoundary ==
    ReadFile \/ ReadFileRaises \/ Reproject \/ UnaryUnion \/ WkbDumps

SpecBoundary == InitBoundary /\ [][NextBoundary]_<< vars, otherVars >>

\* ------------------------------------------------------- build_html_report
MaxCategories == 10
MaxExtraRows == 2

\* palette, in the order of the list literal.
Palette ==
    << "red", "blue", "purple", "orange", "pink",
       "darkred", "cadetblue", "darkpink", "green" >>

\* (latitude, longitude) pairs of the rows of a violation table.
Locations == { <<49, -123>>, <<60, -140>> }

ReportRow(cat, gid, loc) ==
    [asset_category |-> cat, gisid |-> gid,
     latitude |-> loc[1], longitude |-> loc[2]]

\* k rows of k different categories (numbered 1..k), met in ascending or
\* in descending order of their numbers.
DistinctRows(k, ascending) ==
    [i \in 1..k |->
        ReportRow(IF ascending THEN i ELSE k + 1 - i, i, <<49, -123>>)]

\* Up to MaxExtraRows further rows, whose categories and identifiers may
\* repeat those of other rows.
ExtraRows ==
    SeqsUpTo({ ReportRow(c, g, loc) : c \in 1..2, g \in 1..2, loc \in Locations },
             MaxExtraRows)

\* The violation tables handed to build_html_report: never empty, since
\* __main__ builds the report only if df.shape[0] > 0.
ReportTables ==
    { DistinctRows(k, asc) \o extra :
      k \in 0..MaxCategories, asc \in BOOLEAN, extra \in ExtraRows } \ { <<>> }

UniqueKeepAll(values) == values

\* Series.unique(): the different values, in order of first appearance.
RECURSIVE Unique(_)
Unique(values) ==
    IF values = <<>> THEN <<>>
    ELSE LET front == Unique(SubSeq(values, 1, Len(values) - 1))
             last == values[Len(values)]
         IN  IF last \in Range(front) THEN front ELSE Append(front, last)

ColorMapByValue(categories) ==
    [c \in Range(categories) |->
        Palette[((Cardinality({ d \in Range(categories) : d < c }))
                 % Len(Palette)) + 1]]

\* {cat: palette[i % len(palette)] for i, cat in enumerate(cats)}; a key
\* met again takes the later value.
ColorMap(categories) ==
    [c \in Range(categories) |->
        LET i == CHOOSE j \in DOMAIN categories :
                    /\ categories[j] = c
                    /\ \A l \in DOMAIN categories : categories[l] = c => l <= j
        IN  Palette[((i - 1) % Len(Palette)) + 1]]

CircleMarkerLonLat(row, colour) ==
    [kind |-> "CircleMarker", location |-> <<row.longitude, row.latitude>>,
     color |-> colour, popup |-> row]

\* folium.CircleMarker([lat, lon], color=color_map[cat], popup=<the row>)
CircleMarker(row, colour) ==
    [kind |-> "CircleMarker", location |-> <<row.latitude, row.longitude>>,
     color |-> colour, popup |-> row]

\* folium.map.Marker([lat, lon], icon=DivIcon(html=...{gid}...))
LabelMarker(row) ==
    [kind |-> "Marker", location |-> <<row.latitude, row.longitude>>,
     html |-> row.gisid]

\* The feature groups among the children of the map, in order.
FeatureGroups == SelectSeq(layers, LAMBDA l : l.kind = "FeatureGroup")

\* The coords object after the script has run: coords[gid] = [lat, lon]
\* line by line, a later assignment to a key replacing an earlier one.
RECURSIVE Coords(_)
Coords(lines) ==
    IF lines = <<>> THEN <<>>
    ELSE LET before == Coords(SubSeq(lines, 1, Len(lines) - 1))
             line == lines[Len(lines)]
         IN  [g \in DOMAIN before \cup {line.key} |->
                 IF g = line.key THEN line.value ELSE before[g]]

InitReport ==
    /\ pc = "build_html_report"
    /\ MainAtRest
    /\ catalog = <<>>
    /\ db = <<>>
    /\ rpc = "colours"
    /\ rdf \in ReportTables
    /\ cats = <<>> /\ color_map = <<>> /\ layers = <<>> /\ groups = <<>>
    /\ js_coords_lines = <<>>
    /\ RerunIdle /\ BoundaryIdle /\ AgoIdle /\ ProcessIdle

ReportStep(to) ==
    /\ rpc' = to
    /\ UNCHANGED << vars, rerunVars, boundaryVars, agoVars, processVars, rdf >>

\* cats = df["asset_category"].unique(); color_map = {...}
AssignColours ==
    /\ rpc = "colours"
    /\ cats' = Unique([i \in DOMAIN rdf |-> rdf[i].asset_category])
    /\ color_map' = ColorMap(cats')
    /\ ReportStep("map")
    /\ UNCHANGED << layers, groups, js_coords_lines >>

\* m = folium.Map(...); the tile layer and the boundary outline are added.
MakeMap ==
    /\ rpc = "map"
    /\ layers' = << [kind |-> "TileLayer", name |-> "Google Satellite"],
                    [kind |-> "GeoJson", name |-> "BC boundary"] >>
    /\ groups' = <<>>
    /\ ReportStep("groups")
    /\ UNCHANGED << cats, color_map, js_coords_lines >>

\* One pass of "for cat in cats": fg = FeatureGroup(name=str(cat));
\* groups[cat] = fg; m.add_child(fg).
AddFeatureGroup ==
    /\ rpc = "groups"
    /\ LET cat == cats[Len(FeatureGroups) + 1] IN
          /\ groups' = [c \in DOMAIN groups \cup {cat} |->
                           IF c = cat THEN <<>> ELSE groups[c]]
          /\ layers' = Append(layers, [kind |-> "FeatureGroup", name |-> cat])
    /\ ReportStep(IF Len(FeatureGroups) + 1 = Len(cats) THEN "rows" ELSE "groups")
    /\ UNCHANGED << cats, color_map, js_coords_lines >>

\* One pass of "for _, row in df.iterrows()": the circle marker and the
\* label go to groups[cat], the coords line to js_coords_lines.
AddRowMarkers ==
    /\ rpc = "rows"
    /\ LET row == rdf[Len(js_coords_lines) + 1]
           cat == row.asset_category
       IN  /\ groups' = [groups EXCEPT ![cat] =
                            @ \o << CircleMarker(row, color_map[cat]),
                                    LabelMarker(row) >>]
           /\ js_coords_lines' =
                 Append(js_coords_lines,
                        [key |-> row.gisid,
                         value |-> <<row.latitude, row.longitude>>])
    /\ ReportStep(IF Len(js_coords_lines) + 1 = Len(rdf) THEN "finish" ELSE "rows")
    /\ UNCHANGED << cats, color_map, layers >>

\* The layer control is added; legend, table and script are put on the
\* figure, which is returned.
FinishReport ==
    /\ rpc = "finish"
    /\ layers' = Append(layers, [kind |-> "LayerControl", name |-> ""])
    /\ ReportStep("done")
    /\ UNCHANGED << cats, color_map, groups, js_coords_lines >>

NextReport ==
    AssignColours \/ MakeMap \/ AddFeatureGroup \/ AddRowMarkers \/ FinishReport

SpecReport == InitReport /\ [][NextReport]_<< vars, otherVars >>

\* --------------------------------------------------------------- AGOManager
MaxItems == 2
MaxMethodCalls == 3

\* Titles are sequences of words.  The account the manager logs in to, and
\* another account of the organisation.
Titles == { <<"Assets">>, <<"Assets", "Backup">> }
PublishTitles == { <<"Assets">> }
Me == "parks_admin"
Owners == { Me, "someone_else" }
ItemTypes == { "GeoJson", "Feature Service" }

\* The content hosted before the manager is used: at most MaxItems items,
\* any two of which may carry the same title.
HostedContents ==
    UNION { { { [id |-> i, title |-> f[i].title, type |-> f[i].type,
                 owner |-> f[i].owner] : i \in 1..n } :
              f \in [1..n -> [title : Titles, type : ItemTypes, owner : Owners]] } :
            n \in 0..MaxItems }

Call(op, arg) == [op |-> op, arg |-> arg]

MethodNames == { "connect", "publish_feature_layer_from_geojson", "disconnect" }

MethodCalls == Len(SelectSeq(calls, LAMBDA c : c.op \in MethodNames))

\* An identifier no item has had.
NewId == MaxItems + Len(calls) + 1

\* gis.content.search('title:"<title>" AND owner:<user>', item_type="GeoJson"):
\* the user's GeoJson items whose title holds every word of the query.
Search(query, owner) ==
    { it \in items :
        /\ it.type = "GeoJson"
        /\ it.owner = owner
        /\ Range(query) \subseteq Range(it.title) }

RECURSIVE ById(_)
ById(S) ==
    IF S = {} THEN <<>>
    ELSE LET first == CHOOSE it \in S : \A o \in S : it.id <= o.id
         IN  <<first>> \o ById(S \ {first})

ExistingItemsAllHits(hits, t) == ById(hits)

\* [item for item in existing_items if item.title == title]
ExistingItems(hits, t) == ById({ it \in hits : it.title = t })

InitAGO ==
    /\ pc = "ago"
    /\ MainAtRest
    /\ catalog = <<>>
    /\ db = <<>>
    /\ gis = NoGis
    /\ items \in HostedContents
    /\ apc = "idle"
    /\ title = <<>>
    /\ existing_items = <<>>
    /\ new_geojson_item = "None"
    /\ calls = <<>>
    /\ RerunIdle /\ BoundaryIdle /\ ReportIdle /\ ProcessIdle

\* A method may be called: none is running and the bound is not reached.
MayCall == apc = "idle" /\ MethodCalls < MaxMethodCalls

AgoStep(events) ==
    /\ calls' = calls \o events
    /\ UNCHANGED << vars, rerunVars, boundaryVars, reportVars, processVars >>

\* connect(): GIS(...) logs in and users.me is the user.
AgoConnectOk ==
    /\ MayCall
    /\ gis' = GIS(Me)
    /\ AgoStep(<< Call("connect", ""), Call("GIS", ""), Call("return", "connected") >>)
    /\ UNCHANGED << items, apc, title, existing_items, new_geojson_item >>

\* connect(): GIS(...) returns an object without a current user; self.gis
\* holds it and ConnectionError is raised.
AgoConnectNoUser ==
    /\ MayCall
    /\ gis' = GIS("None")
    /\ AgoStep(<< Call("connect", ""), Call("GIS", ""), Call("raise", "ConnectionError") >>)
    /\ UNCHANGED << items, apc, title, existing_items, new_geojson_item >>

\* connect(): GIS(...) itself raises; self.gis is not assigned.
AgoConnectGisRaises ==
    /\ MayCall
    /\ AgoStep(<< Call("connect", ""), Call("GIS", ""), Call("raise", "GIS") >>)
    /\ UNCHANGED << gis, items, apc, title, existing_items, new_geojson_item >>

\* disconnect() with self.gis set and a current user.
AgoDisconnectOk ==
    /\ MayCall
    /\ gis # NoGis /\ gis.me # "None"
    /\ gis' = NoGis
    /\ AgoStep(<< Call("disconnect", ""), Call("return", "disconnected") >>)
    /\ UNCHANGED << items, apc, title, existing_items, new_geojson_item >>

\* disconnect() with self.gis set but users.me None: reading .username
\* raises AttributeError before self.gis is cleared.
AgoDisconnectRaises ==
    /\ MayCall
    /\ gis # NoGis /\ gis.me = "None"
    /\ AgoStep(<< Call("disconnect", ""), Call("raise", "AttributeError") >>)
    /\ UNCHANGED << gis, items, apc, title, existing_items, new_geojson_item >>

\* disconnect() with self.gis None: a warning is logged.
AgoDisconnectNoConnection ==
    /\ MayCall
    /\ gis = NoGis
    /\ AgoStep(<< Call("disconnect", ""), Call("return", "no connection") >>)
    /\ UNCHANGED << gis, items, apc, title, existing_items, new_geojson_item >>

NotConnected == "RuntimeError: Not connected to AGOL. Please call connect() first."
PublishError == "RuntimeError: ..error publishing/updating feature layer"

\* publish_feature_layer_from_geojson with self.gis None.
PublishNotConnected ==
    /\ MayCall
    /\ gis = NoGis
    /\ \E t \in PublishTitles :
          AgoStep(<< Call("publish_feature_layer_from_geojson", t),
                     Call("raise", NotConnected) >>)
    /\ UNCHANGED << gis, items, apc, title, existing_items, new_geojson_item >>

\* publish_feature_layer_from_geojson with self.gis set but users.me None:
\* building the query raises AttributeError inside the try, which the
\* handler turns into the publishing RuntimeError.
PublishNoUser ==
    /\ MayCall
    /\ gis # NoGis /\ gis.me = "None"
    /\ \E t \in PublishTitles :
          AgoStep(<< Call("publish_feature_layer_from_geojson", t),
                     Call("raise", PublishError) >>)
    /\ UNCHANGED << gis, items, apc, title, existing_items, new_geojson_item >>

\* The search for existing items and the filter on the exact title.
PublishSearch ==
    /\ MayCall
    /\ gis # NoGis /\ gis.me # "None"
    /\ \E t \in PublishTitles :
          /\ title' = t
          /\ existing_items' = ExistingItems(Search(t, gis.me), t)
          /\ AgoStep(<< Call("publish_feature_layer_from_geojson", t),
                        Call("search", t) >>)
    /\ apc' = "delete"
    /\ new_geojson_item' = "None"
    /\ UNCHANGED << gis, items >>

\* Mutant of PublishDelete: the loop stops after its first pass.
PublishDeleteFirstOnly ==
    /\ apc = "delete"
    /\ existing_items # <<>>
    /\ LET item == Head(existing_items) IN
          IF item.type = "GeoJson"
          THEN /\ items' = items \ {item}
               /\ AgoStep(<< Call("delete", item) >>)
          ELSE /\ items' = items
               /\ AgoStep(<<>>)
    /\ existing_items' = <<>>
    /\ UNCHANGED << gis, apc, title, new_geojson_item >>

\* One pass of "for item in existing_items".
PublishDelete ==
    /\ apc = "delete"
    /\ existing_items # <<>>
    /\ LET item == Head(existing_items) IN
          IF item.type = "GeoJson"
          THEN /\ items' = items \ {item}
               /\ AgoStep(<< Call("delete", item) >>)
          ELSE /\ items' = items
               /\ AgoStep(<<>>)
    /\ existing_items' = Tail(existing_items)
    /\ UNCHANGED << gis, apc, title, new_geojson_item >>

\* new_geojson_item = self.gis.content.add(...)
PublishAdd ==
    /\ apc = "delete"
    /\ existing_items = <<>>
    /\ LET new == [id |-> NewId, title |-> title, type |-> "GeoJson",
                   owner |-> gis.me]
       IN  /\ new_geojson_item' = new
           /\ items' = items \cup {new}
           /\ AgoStep(<< Call("add", new) >>)
    /\ apc' = "publish"
    /\ UNCHANGED << gis, title, existing_items >>

\* new_geojson_item.publish(overwrite=True): the user's feature service of
\* that title is overwritten, or created if there is none.
PublishPublish ==
    /\ apc = "publish"
    /\ items' =
          IF \E it \in items : /\ it.type = "Feature Service"
                               /\ it.title = title /\ it.owner = gis.me
          THEN items
          ELSE items \cup { [id |-> NewId, title |-> title,
                             type |-> "Feature Service", owner |-> gis.me] }
    /\ AgoStep(<< Call("publish", new_geojson_item), Call("return", "published") >>)
    /\ apc' = "idle"
    /\ UNCHANGED << gis, title, existing_items, new_geojson_item >>

\* A service call of the try block raises (search, delete, add or
\* publish): the handler logs and raises the publishing RuntimeError.
PublishServiceRaises ==
    /\ \/ /\ MayCall
          /\ gis # NoGis /\ gis.me # "None"
          /\ \E t \in PublishTitles :
                AgoStep(<< Call("publish_feature_layer_from_geojson", t),
                           Call("search", t), Call("raise", PublishError) >>)
       \/ /\ apc = "delete"
          /\ existing_items # <<>>
          /\ AgoStep(<< Call("delete", Head(existing_items)),
                        Call("raise", PublishError) >>)
       \/ /\ apc = "delete"
          /\ existing_items = <<>>
          /\ AgoStep(<< Call("add", "None"), Call("raise", PublishError) >>)
       \/ /\ apc = "publish"
          /\ AgoStep(<< Call("publish", new_geojson_item),
                        Call("raise", PublishError) >>)
    /\ apc' = "idle"
    /\ UNCHANGED << gis, items, title, existing_items, new_geojson_item >>

NextAGO ==
    \/ AgoConnectOk \/ AgoConnectNoUser \/ AgoConnectGisRaises
    \/ AgoDisconnectOk \/ AgoDisconnectRaises \/ AgoDisconnectNoConnection
    \/ PublishNotConnected \/ PublishNoUser \/ PublishSearch
    \/ PublishDelete \/ PublishAdd \/ PublishPublish \/ PublishServiceRaises

SpecAGO == InitAGO /\ [][NextAGO]_<< vars, otherVars >>

\* ------------------------------------- PostgresDBManager, called in any order
MaxManagerCalls == 4

InitManager ==
    /\ pc = "manager"
    /\ MainAtRest
    /\ catalog = <<>>
    /\ db = <<>>
    /\ RerunIdle /\ BoundaryIdle /\ ReportIdle /\ AgoIdle /\ ProcessIdle

\* A method of the manager is called and ends; what it does to the manager
\* is said by the caller.
ManagerCall(op) ==
    /\ pc = "manager"
    /\ Len(trace) < MaxManagerCalls
    /\ Log(Ev(op, ""))
    /\ UNCHANGED << pc, pg, released, bc_geom_wkb, catalog, db, tab_names, idx,
                    results, df, dfBound, exiting, exitCode, report, reportInput >>
    /\ UNCHANGED otherVars

\* connect(): a new connection replaces the one held, which is not closed.
ManagerConnectOk ==
    /\ ManagerCall("connect_ok")
    /\ ConnectSucceeds
    /\ UNCHANGED cursor

\* connect(): OperationalError; self.connection = None, the cursor stays.
ManagerConnectFail ==
    /\ ManagerCall("connect_fail")
    /\ ConnectRaisesOperationalError
    /\ UNCHANGED cursor

\* create_cursor() with a connection: self.cursor = self.connection.cursor()
ManagerCreateCursorOk ==
    /\ ManagerCall("create_cursor_ok")
    /\ connection # 0
    /\ cursor' = connection
    /\ UNCHANGED << connection, conn, openConns, opened >>

\* create_cursor() with a connection whose cursor() raises DatabaseError.
ManagerCreateCursorFail ==
    /\ ManagerCall("create_cursor_fail")
    /\ connection # 0
    /\ cursor' = 0
    /\ UNCHANGED << connection, conn, openConns, opened >>

\* create_cursor() without a connection: a warning only.
ManagerCreateCursorNoConnection ==
    /\ ManagerCall("create_cursor_no_connection")
    /\ connection = 0
    /\ UNCHANGED << connection, cursor, conn, openConns, opened >>

ManagerDisconnectCloses ==
    /\ ManagerCall("disconnect_closed")
    /\ DisconnectCloses
    /\ UNCHANGED << conn, opened >>

ManagerDisconnectCloseRaises ==
    /\ ManagerCall("disconnect_close_raised")
    /\ DisconnectCloseRaises
    /\ UNCHANGED << conn, opened >>

ManagerDisconnectNoConnection ==
    /\ ManagerCall("disconnect_no_connection")
    /\ DisconnectNoConnection
    /\ UNCHANGED << conn, opened >>

NextManager ==
    \/ ManagerConnectOk \/ ManagerConnectFail
    \/ ManagerCreateCursorOk \/ ManagerCreateCursorFail
    \/ ManagerCreateCursorNoConnection
    \/ ManagerDisconnectCloses \/ ManagerDisconnectCloseRaises
    \/ ManagerDisconnectNoConnection

SpecManager == InitManager /\ [][NextManager]_<< vars, otherVars >>

\* ----------------------------------------------------------- process_assets
MaxAssetRows == 2

\* cats, the allow-list of asset categories.
AssetCategories ==
    { "Grounds", "Furniture and Amenities", "Signs", "Water Service",
      "Transportation", "Stormwater", "Bridges", "Structures", "Trails",
      "Buildings", "Electrical Telcomm Service", "Wastewater Service",
      "Water Management", "Fuel Storage" }

\* ast_cols, the rename mapping, in the order of the dict literal.
Ast_cols ==
    << <<"assetid", "Asset ID">>,
       <<"gisid", "GIS ID">>,
       <<"park", "Park">>,
       <<"park_subarea", "Park Subarea">>,
       <<"asset_category", "Category - Classification">>,
       <<"asset_type", "Segment - Sub Classification">>,
       <<"description", "Description">>,
       <<"campsite_number", "Campsite Number">>,
       <<"name", "Name">>,
       <<"accessible", "acs Is Asset Accessible">>,
       <<"route_accessible", "acs Is the Route to the Asset Accessible">>,
       <<"gis_latitude", "GIS Latitude">>,
       <<"gis_longitude", "GIS Longitude">> >>

\* latcol and loncol as __main__ passes them.
Latcol == "GIS Latitude"
Loncol == "GIS Longitude"

Lat_min == 47
Lat_max == 60
Lon_min == -145
Lon_max == -113

\* The columns of the table read_assets returns, in database order.
AssetColumns ==
    << "ogc_fid", "gisid", "assetid", "asset_category", "asset_type", "park",
       "park_subarea", "name", "description", "campsite_number", "accessible",
       "route_accessible", "gis_latitude", "gis_longitude" >>

\* A coordinate is a number of degrees or missing (NaN).
Missing == [isnull |-> TRUE, v |-> 0]
Degrees(d) == [isnull |-> FALSE, v |-> d]

\* The values of a row that process_assets looks at: a category on the
\* list, one off it or none, and coordinates at and just beyond each bound.
AssetRowValues ==
    [asset_category : {"Trails", "Tools", "None"},
     gis_latitude : {Missing} \cup { Degrees(d) :
                        d \in {Lat_min - 1, Lat_min, Lat_max, Lat_max + 1} },
     gis_longitude : {Missing} \cup { Degrees(d) :
                        d \in {Lon_min - 1, Lon_min, Lon_max, Lon_max + 1} }]

\* Tables of up to MaxAssetRows rows; assetid numbers the rows.
AssetTables ==
    { [columns |-> AssetColumns,
       rows |-> [i \in DOMAIN vals |->
                   [assetid |-> i,
                    asset_category |-> vals[i].asset_category,
                    gis_latitude |-> vals[i].gis_latitude,
                    gis_longitude |-> vals[i].gis_longitude]]] :
      vals \in SeqsUpTo(AssetRowValues, MaxAssetRows) }

\* The name a column has after df.rename(columns=ast_cols).
Renamed(c) ==
    IF \E k \in DOMAIN Ast_cols : Ast_cols[k][1] = c
    THEN Ast_cols[CHOOSE k \in DOMAIN Ast_cols : Ast_cols[k][1] = c][2]
    ELSE c

RenameRow(row) ==
    [c \in { Renamed(k) : k \in DOMAIN row } |->
        row[CHOOSE k \in DOMAIN row : Renamed(k) = c]]

\* NaN compares false with every number.
AtLeast(x, bound) == ~ x.isnull /\ x.v >= bound
AtMost(x, bound) == ~ x.isnull /\ x.v <= bound

\* Mutant of WithinBC: the bounds themselves are excluded.
WithinBCExclusive(row) ==
    /\ ~ AtMost(row[Latcol], Lat_min) /\ ~ AtLeast(row[Latcol], Lat_max)
    /\ ~ AtMost(row[Loncol], Lon_min) /\ ~ AtLeast(row[Loncol], Lon_max)
    /\ ~ row[Latcol].isnull /\ ~ row[Loncol].isnull

\* (lat >= lat_min) & (lat <= lat_max) & (lon >= lon_min) & (lon <= lon_max)
WithinBC(row) ==
    /\ AtLeast(row[Latcol], Lat_min) /\ AtMost(row[Latcol], Lat_max)
    /\ AtLeast(row[Loncol], Lon_min) /\ AtMost(row[Loncol], Lon_max)

InitAssets ==
    /\ pc = "process_assets"
    /\ MainAtRest
    /\ catalog = <<>>
    /\ db = <<>>
    /\ assets_in \in AssetTables
    /\ assets_df = <<>>
    /\ ppc = "isin"
    /\ RerunIdle /\ BoundaryIdle /\ ReportIdle /\ AgoIdle

AssetsStep(to) ==
    /\ ppc' = to
    /\ UNCHANGED << vars, rerunVars, boundaryVars, reportVars, agoVars, assets_in >>

\* df = df[df['asset_category'].isin(cats)]
FilterCategories ==
    /\ ppc = "isin"
    /\ assets_df' = [assets_in EXCEPT !.rows =
                        SelectSeq(@, LAMBDA r : r.asset_category \in AssetCategories)]
    /\ AssetsStep("rename")

\* df.rename(columns=ast_cols, inplace=True)
RenameColumns ==
    /\ ppc = "rename"
    /\ assets_df' =
          [columns |-> [i \in DOMAIN assets_df.columns |-> Renamed(assets_df.columns[i])],
           rows |-> [i \in DOMAIN assets_df.rows |-> RenameRow(assets_df.rows[i])]]
    /\ AssetsStep("reorder")

\* df = df[ast_cols.values()]
ReorderColumns ==
    /\ ppc = "reorder"
    /\ \A k \in DOMAIN Ast_cols : Ast_cols[k][2] \in Range(assets_df.columns)
    /\ assets_df' = [assets_df EXCEPT !.columns =
                        [k \in DOMAIN Ast_cols |-> Ast_cols[k][2]]]
    /\ AssetsStep("dropna")

\* df = df.dropna(subset=[latcol, loncol])
DropMissing ==
    /\ ppc = "dropna"
    /\ assets_df' = [assets_df EXCEPT !.rows =
                        SelectSeq(@, LAMBDA r : ~ r[Latcol].isnull /\ ~ r[Loncol].isnull)]
    /\ AssetsStep("within")

\* keep only points within BC
KeepWithinBC ==
    /\ ppc = "within"
    /\ assets_df' = [assets_df EXCEPT !.rows = SelectSeq(@, WithinBC)]
    /\ AssetsStep("geodataframe")

\* gpd.GeoDataFrame(df, geometry=points_from_xy(df[loncol], df[latcol]));
\* object columns are turned into strings, which leaves categories and
\* coordinates as they are, and the table is returned.
ToGeoDataFrame ==
    /\ ppc = "geodataframe"
    /\ assets_df' =
          [columns |-> Append(assets_df.columns, "geometry"),
           rows |-> [i \in DOMAIN assets_df.rows |->
                       [c \in DOMAIN assets_df.rows[i] \cup {"geometry"} |->
                           IF c = "geometry"
                           THEN << assets_df.rows[i][Loncol].v, assets_df.rows[i][Latcol].v >>
                           ELSE assets_df.rows[i][c]]]]
    /\ AssetsStep("returned")

NextAssets ==
    \/ FilterCategories \/ RenameColumns \/ ReorderColumns
    \/ DropMissing \/ KeepWithinBC \/ ToGeoDataFrame

SpecAssets == InitAssets /\ [][NextAssets]_<< vars, otherVars >>

\* ------------------------------------------------------------- properties
\* The positions of the trace at which one of the operations ops was done.
Positions(ops) == { i \in DOMAIN trace : trace[i].op \in ops }

Did(op) == Positions({op}) # {}

\* The tables whose spatial query returned, in the order of the queries.
QueriedTables ==
    LET q == SelectSeq(trace, LAMBDA e : e.op = "query")
    IN  [i \in DOMAIN q |-> q[i].arg]

\* The tables of the catalog that are not on the denylist, in catalog order.
CatalogCandidates ==
    SelectSeq(catalog, LAMBDA x : x \notin {"qgis_projects", "trails", "roads"})

\* The stored row a returned row was computed from.
StoredRow(src) == db[src[1]].rows[src[2]]

\* The stored rows of the candidate tables that lie outside the boundary
\* and farther from it than 0.05 km.
ExpectedViolations ==
    { <<t, i>> \in Range(CatalogCandidates) \X (1..MaxRows + 1) :
         /\ i \in DOMAIN db[t].rows
         /\ ~ db[t].rows[i].inter
         /\ db[t].rows[i].dist > 500 }

\* C1: the table returned by evaluate_assets holds exactly the rows of the
\* candidate tables whose geometry does not intersect the boundary and
\* whose queried distance is strictly greater than 0.05 km, each once.
C1_ExactlyTheViolations ==
    dfBound =>
        /\ { df.rows[k].src : k \in DOMAIN df.rows } = ExpectedViolations
        /\ Len(df.rows) = Cardinality(ExpectedViolations)

\* C1 witness: evaluate_assets has returned exactly one row, the outside
\* one, from contents that also hold a row intersecting the boundary.
C1_Witness ==
    /\ dfBound
    /\ Len(df.rows) = 1
    /\ \E t \in DOMAIN db : \E i \in DOMAIN db[t].rows : db[t].rows[i].inter

\* C2 as stated: every row of the returned table carries a (rounded)
\* distance strictly greater than 0.05 km.
C2_Original ==
    dfBound => \A k \in DOMAIN df.rows : df.rows[k].distance_km > 500

\* C2 as amended: every row of the returned table had a queried distance
\* strictly greater than 0.05 km before rounding, and carries a rounded
\* distance of at least 0.05 km (a distance in (0.05, 0.0505) is returned
\* as 0.05).
C2_RoundedAtLeastThreshold ==
    dfBound =>
        \A k \in DOMAIN df.rows :
            /\ StoredRow(df.rows[k].src).dist > 500
            /\ df.rows[k].distance_km >= 500

\* C2 witness: a returned row whose distance, as it stands in the table,
\* equals the threshold.
C2_Witness ==
    /\ dfBound
    /\ \E k \in DOMAIN df.rows :
          df.rows[k].distance_km = 500 /\ StoredRow(df.rows[k].src).dist = 503

\* C3: the returned table is sorted by (rounded) distance, descending.
C3_SortedDescending ==
    dfBound =>
        \A i \in 1..(Len(df.rows) - 1) :
            df.rows[i].distance_km >= df.rows[i + 1].distance_km

\* C3 witness: a returned table of two rows with different distances whose
\* order is the reverse of the order in which the queries returned them.
C3_Witness ==
    /\ dfBound
    /\ Len(df.rows) = 2
    /\ df.rows[1].distance_km > df.rows[2].distance_km
    /\ LET all == Concat(Frames(results)).rows IN
          \E i, j \in DOMAIN all :
             i < j /\ all[i].src = df.rows[2].src /\ all[j].src = df.rows[1].src

\* C4 as stated: a run ends with status zero exactly when the evaluation
\* completed normally (returned a table), a table of zero rows included.
C4_ZeroOnNormalCompletion ==
    pc = "done" => (exitCode = 0 <=> dfBound)

\* C5 as stated: a run whose violation table has zero rows still produces
\* a report document.
C5_EmptyTableStillReported ==
    (pc = "done" /\ dfBound /\ Len(df.rows) = 0) => report # "none"

\* C6 as stated: in every run the connection is opened at most once, the
\* release step is executed, and no run ends with the connection open.
C6_ConnectionScoped ==
    /\ opened <= 1
    /\ pc = "done" => (released /\ openConns = {})

\* The operations that issue a query to the database.
QueryOps == {"catalog_query", "catalog_query_fail", "query", "query_fail"}

\* C7 as stated: when the boundary file cannot be read, no database
\* connection is opened and no query is issued.
C7_Original ==
    Did("read_geojson_fail") => (opened = 0 /\ Positions(QueryOps) = {})

\* C7 as amended: when the boundary file cannot be read, the connection
\* attempt has already been made, no query is issued, evaluate_assets is
\* never entered, and the run releases the connection and exits non-zero.
C7_AbortsBeforeAnyQuery ==
    Did("read_geojson_fail") =>
        /\ Positions({"connect_ok", "connect_fail"}) # {}
        /\ Positions(QueryOps) = {}
        /\ ~ dfBound
        /\ report = "none"
        /\ pc = "done" => (released /\ exitCode = 1)

\* C7 witness: a finished run in which the connection was opened and the
\* boundary file then failed to load.
C7_Witness ==
    /\ pc = "done"
    /\ Did("connect_ok")
    /\ Did("read_geojson_fail")

\* C8 as stated: after a failed connection attempt the boundary file is not
\* read, no query is attempted and no report is built, and the run exits
\* non-zero.
C8_AbortsOnConnectFailure ==
    \A i \in Positions({"connect_fail"}) :
        /\ \A j \in DOMAIN trace :
              j > i => trace[j].op \notin
                          (QueryOps \cup {"read_geojson_ok", "read_geojson_fail",
                                          "build_html_report", "save"})
        /\ pc = "done" => exitCode # 0

\* C9: once the spatial query of a table has failed, no further query is
\* made (no retry, no later table), evaluate_assets returns no table, no
\* report is built or written, and the run ends with a non-zero status.
C9_QueryFailureAbortsEvaluation ==
    \A i \in Positions({"query_fail"}) :
        /\ \A j \in DOMAIN trace :
              j > i => trace[j].op \notin {"query", "query_fail"}
        /\ ~ dfBound
        /\ report = "none"
        /\ pc = "done" => exitCode # 0

\* C9 witness: a finished run in which the first table returned rows and
\* the query of the second table failed.
C9_Witness ==
    /\ pc = "done"
    /\ Did("query_fail")
    /\ Len(results) = 1
    /\ Len(results[1].df_tab.rows) > 0
    /\ idx = 2
    /\ Len(tab_names) = 2

\* C10: no denylisted table is ever queried, and when evaluate_assets
\* returns, the tables queried are exactly the tables of the catalog that
\* are not denylisted, each once, in catalog order.
C10_CandidatesQueriedOnceInOrder ==
    /\ \A i \in Positions({"query", "query_fail"}) :
          trace[i].arg \notin {"qgis_projects", "trails", "roads"}
    /\ dfBound => QueriedTables = CatalogCandidates

\* C10 witness: evaluate_assets has returned for a catalog that lists a
\* denylisted table between two candidate tables.
C10_Witness ==
    /\ dfBound
    /\ Len(catalog) = 3
    /\ catalog[2] = "roads"
    /\ QueriedTables = << "facilities", "campsites" >>

\* The columns of the tables tabs as the spatial query returns them, each
\* column once, in order of first appearance.
RECURSIVE QueriedColumns(_)
QueriedColumns(tabs) ==
    IF tabs = <<>> THEN <<>>
    ELSE AppendNew(db[Head(tabs)].cols \o <<"longitude", "latitude", "distance_km">>,
                   QueriedColumns(Tail(tabs)))

\* C11: the columns of the returned table, and their order, are those of
\* all candidate tables in catalog order less the three dropped columns,
\* whatever number of rows (zero or more) each table contributes.
C11_ColumnsIndependentOfRows ==
    dfBound =>
        df.columns =
            SelectSeq(QueriedColumns(CatalogCandidates),
                      LAMBDA c : c \notin {"wkb_geometry", "ogc_fid", "campsite_number"})

\* C11 witness: evaluate_assets has returned a table with rows, the first
\* candidate table contributed no row, and the column asset_type of the
\* returned table comes from that table alone.
C11_Witness ==
    /\ dfBound
    /\ Len(df.rows) > 0
    /\ Len(results) = 2
    /\ results[1].df_tab.rows = <<>>
    /\ "asset_type" \in Range(results[1].df_tab.columns)
    /\ "asset_type" \notin Range(results[2].df_tab.columns)
    /\ "asset_type" \in Range(df.columns)

\* C12 as stated: two calls of evaluate_assets against the same database
\* contents and boundary return identical tables, the order of rows of
\* equal distance included.
C12_RerunIdentical ==
    Len(returned) = 2 => returned[1] = returned[2]

\* C13: for a boundary file of one or more features, what read_geojson
\* returns is one serialised geometry, and the points it covers are exactly
\* the points (in EPSG:4326) covered by any feature of the file.
C13_ReturnsUnionOfFeatures ==
    (pc = "returned" /\ Len(geojson.features) >= 1) =>
        \A k \in 1..NPoints :
            (k \in Wkb_loads(wkb))
            <=> (\E i \in DOMAIN geojson.features :
                    k + CrsOffset[geojson.crs] \in geojson.features[i])

\* A file in another reference system whose two features each cover a
\* point the other does not has been read.
C13_Witness ==
    /\ pc = "returned"
    /\ geojson.crs = "EPSG:3005"
    /\ Len(geojson.features) = 2
    /\ geojson.features[1] \ geojson.features[2] # {}
    /\ geojson.features[2] \ geojson.features[1] # {}
    /\ Len(wkb) = NPoints

\* The categories of the table handed to build_html_report, and for each
\* the number of distinct categories that first appear in an earlier row.
RowCategories == { rdf[i].asset_category : i \in DOMAIN rdf }

FirstRowOf(cat) ==
    CHOOSE i \in DOMAIN rdf :
        /\ rdf[i].asset_category = cat
        /\ \A j \in 1..(i - 1) : rdf[j].asset_category # cat

AppearanceRank(cat) ==
    Cardinality({ d \in RowCategories : FirstRowOf(d) < FirstRowOf(cat) })

\* C14: the i-th distinct category, counting from 0 in order of first
\* appearance in the table, gets the colour palette[i mod 9]; so two
\* categories get the same colour exactly if their ranks differ by a
\* multiple of 9, and never when there are at most 9 categories.
C14_ColourByFirstAppearance ==
    rpc \notin {"colours"} =>
        /\ DOMAIN color_map = RowCategories
        /\ \A c \in RowCategories :
              color_map[c] = Palette[(AppearanceRank(c) % 9) + 1]
        /\ \A c, d \in RowCategories :
              (color_map[c] = color_map[d])
              <=> (AppearanceRank(c) % 9 = AppearanceRank(d) % 9)
        /\ Cardinality(RowCategories) <= 9 =>
              \A c, d \in RowCategories : c # d => color_map[c] # color_map[d]

\* Ten categories met in descending order have been coloured: the first
\* met (number 10) and the tenth met (number 1) share the first colour.
C14_Witness ==
    /\ rpc = "done"
    /\ Cardinality(RowCategories) = 10
    /\ rdf[1].asset_category = 10
    /\ color_map[10] = "red"
    /\ color_map[9] = "blue"
    /\ color_map[1] = "red"

\* C15: once the report is built, the map holds exactly one feature group
\* per distinct category of the table: as many groups as categories, each
\* category named by one of them and no group for any other category.
C15_OneLayerPerCategory ==
    rpc = "done" =>
        /\ Len(FeatureGroups) = Cardinality(RowCategories)
        /\ { FeatureGroups[i].name : i \in DOMAIN FeatureGroups } = RowCategories
        /\ DOMAIN groups = RowCategories

\* A table of four rows in two categories has given two feature groups.
C15_Witness ==
    /\ rpc = "done"
    /\ Len(rdf) = 4
    /\ RowCategories = {1, 2}
    /\ Len(FeatureGroups) = 2

\* C16 as stated: for every row, the lookup built from js_coords_lines maps
\* the row's identifier to that row's (latitude, longitude), also when two
\* rows share an identifier.
C16_LookupGivesOwnCoordinates ==
    rpc = "done" =>
        \A i \in DOMAIN rdf :
            Coords(js_coords_lines)[rdf[i].gisid] = <<rdf[i].latitude, rdf[i].longitude>>

\* The circle markers and the labels a category's rows call for, in row
\* order.
RECURSIVE ExpectedChildren(_, _)
ExpectedChildren(rows, cat) ==
    IF rows = <<>> THEN <<>>
    ELSE LET row == Head(rows) IN
         (IF row.asset_category = cat
          THEN << [kind |-> "CircleMarker",
                   location |-> <<row.latitude, row.longitude>>,
                   color |-> Palette[(AppearanceRank(cat) % 9) + 1],
                   popup |-> row],
                  [kind |-> "Marker",
                   location |-> <<row.latitude, row.longitude>>,
                   html |-> row.gisid] >>
          ELSE <<>>)
         \o ExpectedChildren(Tail(rows), cat)

CircleCount(cat) ==
    Len(SelectSeq(groups[cat], LAMBDA ch : ch.kind = "CircleMarker"))

RECURSIVE SumOver(_, _)
SumOver(S, f) ==
    IF S = {} THEN 0
    ELSE LET x == CHOOSE y \in S : TRUE IN f[x] + SumOver(S \ {x}, f)

\* C20: once the report is built, each category's layer holds, for every
\* row of that category and for no other row, one circle marker and one
\* identifier label at the row's (latitude, longitude), the circle in the
\* category's colour; the circle markers number as many as the rows.
C20_OneCircleAndLabelPerRow ==
    rpc = "done" =>
        /\ \A cat \in RowCategories : groups[cat] = ExpectedChildren(rdf, cat)
        /\ SumOver(DOMAIN groups, [cat \in DOMAIN groups |-> CircleCount(cat)]) = Len(rdf)

\* Rows of two categories at two different places have been drawn, two
\* of them in the same category.
C20_Witness ==
    /\ rpc = "done"
    /\ Len(rdf) = 3
    /\ RowCategories = {1, 2}
    /\ \E i, j \in DOMAIN rdf : rdf[i].latitude # rdf[j].latitude
    /\ Len(groups[1]) = 4
    /\ Len(groups[2]) = 2

\* The connected user's GeoJson items that carry exactly the title t.
TitledGeoJson(content, t, owner) ==
    { it \in content : it.type = "GeoJson" /\ it.title = t /\ it.owner = owner }

HasConnection(i) ==
    \E j \in 1..(i - 1) :
        /\ calls[j].op = "return" /\ calls[j].arg = "connected"
        /\ \A k \in (j + 1)..(i - 1) :
              /\ ~ (calls[k].op = "return" /\ calls[k].arg = "disconnected")
              /\ ~ (calls[k].op = "raise" /\ calls[k].arg = "ConnectionError")

\* C18 as stated: every call of publish_feature_layer_from_geojson made
\* while the manager has no successful connection (before any connect(),
\* after disconnect(), after a connect() that raised ConnectionError)
\* raises the 'Not connected to AGOL' RuntimeError at once, with no search,
\* delete, add or publish.
C18_NotConnectedRaised ==
    \A i \in DOMAIN calls :
        (calls[i].op = "publish_feature_layer_from_geojson" /\ ~ HasConnection(i)) =>
            /\ i < Len(calls)
            /\ calls[i + 1].op = "raise"
            /\ calls[i + 1].arg = NotConnected

\* The one position of op in the trace, when it occurs exactly once.
OnlyPosition(op) == CHOOSE i \in Positions({op}) : TRUE

\* C19: in a run that saves a report, database connect, boundary load,
\* evaluation, database disconnect, report build and report save each
\* happen once and in this order; the report builder never starts before
\* evaluate_assets has returned, and the table it is given is the one that
\* evaluation returned.
C19_StepsInOrder ==
    /\ Did("save") =>
          /\ \A op \in {"connect_ok", "read_geojson_ok", "evaluate_return",
                        "disconnect", "build_html_report", "save"} :
                Cardinality(Positions({op})) = 1
          /\ OnlyPosition("connect_ok") < OnlyPosition("read_geojson_ok")
          /\ OnlyPosition("read_geojson_ok") < OnlyPosition("evaluate_return")
          /\ OnlyPosition("evaluate_return") < OnlyPosition("disconnect")
          /\ OnlyPosition("disconnect") < OnlyPosition("build_html_report")
          /\ OnlyPosition("build_html_report") < OnlyPosition("save")
    /\ \A i \in Positions({"build_html_report"}) :
          \E j \in 1..(i - 1) : trace[j].op = "evaluate_return"
    /\ Did("build_html_report") =>
          /\ dfBound
          /\ reportInput = df

\* A report has been saved for a table put together from two frames, the
\* first of which has more columns than the table.
C19_Witness ==
    /\ Did("save")
    /\ report = "saved"
    /\ Len(results) = 2
    /\ Len(reportInput.rows) = 2
    /\ reportInput # Frames(results)[1]

\* C21: a table returned by evaluate_assets has none of the columns
\* wkb_geometry, ogc_fid and campsite_number and has every other column of
\* the concatenated frames, in their order, longitude, latitude and
\* distance_km among them; and evaluate_assets returns no table when one of
\* the three columns is missing from the concatenated frames.
C21_DroppedColumnsOnly ==
    LET all == Concat(Frames(results)).columns IN
    /\ dfBound =>
          /\ Range(df.columns) \cap {"wkb_geometry", "ogc_fid", "campsite_number"} = {}
          /\ df.columns =
                SelectSeq(all, LAMBDA c :
                    c \notin {"wkb_geometry", "ogc_fid", "campsite_number"})
          /\ {"longitude", "latitude", "distance_km"} \subseteq Range(df.columns)
    /\ (Did("evaluate_return") \/ Did("evaluate_fail")) =>
          \A c \in {"wkb_geometry", "ogc_fid", "campsite_number"} :
              c \notin Range(all) =>
                  ~ dfBound /\ Did("evaluate_fail") /\ ~ Did("evaluate_return")

\* A table with rows has been returned whose frames had the three columns
\* and asset_type, which is kept.
C21_Witness ==
    /\ dfBound
    /\ Len(df.rows) > 0
    /\ {"wkb_geometry", "ogc_fid", "campsite_number", "asset_type"}
          \subseteq Range(Concat(Frames(results)).columns)
    /\ "asset_type" \in Range(df.columns)
    /\ Len(df.columns) = Len(Concat(Frames(results)).columns) - 3

\* C27: when the catalog query has returned and no table of the catalog
\* is left after the denylist, evaluate_assets returns no table (not even
\* an empty one) and no report is built or written; the finished run has
\* failed in the concatenation, has executed pg.disconnect(), which leaves
\* the manager without a connection, and has a non-zero exit status.
C27_NoCandidatesFails ==
    (Did("catalog_query") /\ CatalogCandidates = <<>>) =>
        /\ ~ dfBound
        /\ ~ Did("evaluate_return")
        /\ Positions({"build_html_report", "save"}) = {}
        /\ report = "none"
        /\ pc = "done" =>
              /\ Did("evaluate_fail")
              /\ Did("disconnect")
              /\ released
              /\ connection = 0
              /\ exitCode # 0

\* A run on a schema that lists denylisted tables only has finished.
C27_Witness ==
    /\ pc = "done"
    /\ Did("catalog_query")
    /\ catalog # <<>>
    /\ CatalogCandidates = <<>>
    /\ Did("evaluate_fail")
    /\ opened = 1
    /\ released

\* C22 as stated: whenever disconnect has just ended, after any sequence of
\* connect, create_cursor and disconnect calls and whether close succeeded,
\* raised DatabaseError or there was no connection, the manager has
\* connection = None and cursor = None.
C22_DisconnectClearsBoth ==
    (trace # <<>> /\ trace[Len(trace)].op \in
        {"disconnect_closed", "disconnect_close_raised", "disconnect_no_connection"}) =>
        /\ connection = 0
        /\ cursor = 0

\* C24 as stated: in every state reachable by connect, create_cursor and
\* disconnect calls, a cursor implies a connection, and at most one
\* connection opened by the manager is open.
C24_CursorImpliesConnection ==
    /\ cursor # 0 => connection # 0
    /\ Cardinality(openConns) <= 1

\* C25 as stated: every call of AGOManager.disconnect returns (it never
\* raises) and leaves gis = None, also in the state left by a connect()
\* that raised ConnectionError because there was no current user.
C25_DisconnectNeverRaises ==
    \A i \in DOMAIN calls :
        calls[i].op = "disconnect" =>
            /\ i < Len(calls)
            /\ calls[i + 1].op = "return"
            /\ (i + 1 = Len(calls)) => gis = NoGis

\* The event that opened the method call in which event i lies.
CallStart(i) ==
    CHOOSE s \in 1..i :
        /\ calls[s].op \in MethodNames
        /\ \A k \in (s + 1)..i : calls[k].op \notin MethodNames

\* The items deleted in the method call that ends with event i.
DeletedIn(i) ==
    { calls[k].arg : k \in { d \in CallStart(i)..(i - 1) :
                               calls[d].op = "delete" /\ calls[d + 1].op # "raise" } }

MeetsConditions(r) ==
    /\ r.asset_category \in AssetCategories
    /\ ~ r.gis_latitude.isnull
    /\ ~ r.gis_longitude.isnull
    /\ 47 <= r.gis_latitude.v /\ r.gis_latitude.v <= 60
    /\ -145 <= r.gis_longitude.v /\ r.gis_longitude.v <= -113

\* C23: in the table process_assets returns, every row has a category of
\* the allow-list, a latitude and a longitude, latitude in [47, 60] and
\* longitude in [-145, -113]; its rows are exactly the rows of the argument
\* that meet these conditions, in their order; and its columns are the
\* display names in the order of the rename mapping, followed by geometry.
C23_CleanAssets ==
    ppc = "returned" =>
        /\ \A i \in DOMAIN assets_df.rows :
              LET r == assets_df.rows[i] IN
              /\ r["Category - Classification"] \in AssetCategories
              /\ ~ r["GIS Latitude"].isnull
              /\ ~ r["GIS Longitude"].isnull
              /\ 47 <= r["GIS Latitude"].v /\ r["GIS Latitude"].v <= 60
              /\ -145 <= r["GIS Longitude"].v /\ r["GIS Longitude"].v <= -113
        /\ [i \in DOMAIN assets_df.rows |-> assets_df.rows[i]["Asset ID"]]
              = LET kept == SelectSeq(assets_in.rows, MeetsConditions)
                IN  [i \in DOMAIN kept |-> kept[i].assetid]
        /\ assets_df.columns =
              << "Asset ID", "GIS ID", "Park", "Park Subarea",
                 "Category - Classification", "Segment - Sub Classification",
                 "Description", "Campsite Number", "Name",
                 "acs Is Asset Accessible",
                 "acs Is the Route to the Asset Accessible",
                 "GIS Latitude", "GIS Longitude", "geometry" >>

\* A table has been returned for two rows, the first on the lower bounds
\* and kept, the second one degree beyond the upper latitude bound and
\* dropped.
C23_Witness ==
    /\ ppc = "returned"
    /\ Len(assets_in.rows) = 2
    /\ assets_in.rows[1].asset_category = "Trails"
    /\ assets_in.rows[1].gis_latitude = Degrees(47)
    /\ assets_in.rows[1].gis_longitude = Degrees(-145)
    /\ assets_in.rows[2].asset_category = "Trails"
    /\ assets_in.rows[2].gis_latitude = Degrees(61)
    /\ Len(assets_df.rows) = 1
    /\ assets_df.rows[1]["geometry"] = << -145, 47 >>

=============================================================================
